---- MODULE Spec2Model ----
(***************************************************************************)
(* A model of the CoreBluetooth peripheral of bluster,                     *)
(* src/peripheral/corebluetooth/mod.rs: the delegate object with its two   *)
(* instance variables, the public operations of Peripheral, and the six    *)
(* delegate callbacks the host stack invokes.  The host stack              *)
(* (CBPeripheralManager) is the environment: it delivers events in any     *)
(* order and receives the messages the code sends.                         *)
(*                                                                         *)
(* Spec runs every operation and callback on one constructed Peripheral,   *)
(* SpecFlags runs add_service over every (properties, secure) of one       *)
(* characteristic, and SpecThreads runs Peripheral::new and is_powered_on  *)
(* on several threads, step by step, beside the handlers of each           *)
(* instance's queue.  The variables of the one Peripheral do not change in *)
(* SpecThreads, and those of the threads do not change in the other two.   *)
(***************************************************************************)
EXTENDS Integers, Sequences, FiniteSets, TLC

VARIABLES
    poweredOn,      \* the delegate's POWERED_ON_IVAR, a pointer-sized word
    managerState,   \* what [peripheral state] answers: the last state the host reported
    seenOn,         \* history: a PoweredOn event has been delivered
    last,           \* the operation or callback that ran last, with what it sent and returned
    addCalls,       \* history: the service uuids handed to add_service, in call order
    managerAdds,    \* the registration requests the peripheral manager received, in order
    lastToggle,     \* history: the last PoweredOn or PoweredOff event delivered, "none" before one
    once,           \* REGISTER_DELEGATE_CLASS, and how often its closure has run
    threads,        \* the callers of SpecThreads: where each is in new() and is_powered_on()
    delegates       \* the delegate object each caller of SpecThreads has made

\* the state of the callers of SpecThreads
processVars == <<once, threads, delegates>>

\* the state of the one Peripheral of Spec and SpecFlags
peripheralVars == <<poweredOn, managerState, seenOn, last, addCalls, managerAdds, lastToggle>>

vars == <<poweredOn, managerState, seenOn, last, addCalls, managerAdds, lastToggle,
          once, threads, delegates>>

---------------------------------------------------------------------------
(* Bounds of the model. *)

MaxChars == 2       \* characteristics per service
MaxUuids == 2       \* service uuids per advertisement
MaxBatch == 3       \* write requests per write_requested event
MaxAddCalls == 2    \* add_service calls in one run

---------------------------------------------------------------------------
(* Objective-C scalars. *)

\* objc::runtime::YES and NO, BOOL = i8
YES == 1
NO == 0

\* ffi::nil
nil == 0

\* `p as i8` / `p as BOOL`: the low byte of a word, read as a signed byte
AsI8(p) ==
    LET b == p % 256 IN IF b >= 128 THEN b - 256 ELSE b

\* `c as u8`: the low byte of an enum discriminant
AsU8(c) == c % 256

\* `n as *mut Object` for an i8 n >= 0
AsPtr(n) == n

objc_to_rust_bool(objc_bool) ==
    CASE objc_bool = YES -> "true"
      [] objc_bool = NO -> "false"
      [] OTHER -> "panic"

RECURSIVE BitOr(_, _)
\* `a | b` on non-negative integers
BitOr(a, b) ==
    IF a = 0 THEN b
    ELSE IF b = 0 THEN a
    ELSE (IF a % 2 = 1 \/ b % 2 = 1 THEN 1 ELSE 0) + 2 * BitOr(a \div 2, b \div 2)

RECURSIVE BitAnd(_, _)
BitAnd(a, b) ==
    IF a = 0 \/ b = 0 THEN 0
    ELSE (IF a % 2 = 1 /\ b % 2 = 1 THEN 1 ELSE 0) + 2 * BitAnd(a \div 2, b \div 2)

---------------------------------------------------------------------------
(* The host's constants, as CoreBluetooth declares them (ffi). *)

CBManagerStates ==
    {"Unknown", "Resetting", "Unsupported", "Unauthorized", "PoweredOff", "PoweredOn"}

CBCharacteristicPropertyRead == 2                           \* 0x02
CBCharacteristicPropertyWriteWithoutResponse == 4           \* 0x04
CBCharacteristicPropertyWrite == 8                          \* 0x08
CBCharacteristicPropertyNotify == 16                        \* 0x10
CBCharacteristicPropertyIndicate == 32                      \* 0x20
CBCharacteristicPropertyNotifyEncryptionRequired == 256     \* 0x100
CBCharacteristicPropertyIndicateEncryptionRequired == 512   \* 0x200

CBAttributePermissionsReadable == 1                 \* 0x01
CBAttributePermissionsWriteable == 2                \* 0x02
CBAttributePermissionsReadEncryptionRequired == 4   \* 0x04
CBAttributePermissionsWriteEncryptionRequired == 8  \* 0x08

CBATTErrorSuccess == 0

CBAdvertisementDataLocalNameKey == "kCBAdvDataLocalName"
CBAdvertisementDataServiceUUIDsKey == "kCBAdvDataServiceUUIDs"

\* gatt::characteristic::Property
Property == {"Read", "Write", "WriteWithoutResponse", "Notify", "Indicate"}

---------------------------------------------------------------------------
(* Values of the caller: uuids, characteristics, services. *)

\* two uuid::Uuid values, 16 bytes each
UuidA == <<0, 17, 34, 51, 68, 85, 102, 119, 136, 153, 170, 187, 204, 221, 238, 255>>
UuidB == <<18, 52, 86, 120, 154, 188, 222, 240, 1, 35, 69, 103, 137, 171, 205, 239>>
Uuids == {UuidA, UuidB}

HexDigits ==
    <<"0", "1", "2", "3", "4", "5", "6", "7", "8", "9", "a", "b", "c", "d", "e", "f">>

\* the two lower-case hex digits of a byte
HexByte(b) == HexDigits[(b \div 16) + 1] \o HexDigits[(b % 16) + 1]

RECURSIVE HexBytes(_)
HexBytes(bs) ==
    IF bs = <<>> THEN "" ELSE HexByte(Head(bs)) \o HexBytes(Tail(bs))

\* Uuid::to_hyphenated().to_string() and Uuid::to_string(): 8-4-4-4-12 lower-case hex
Hyphenated(u) ==
    HexBytes(SubSeq(u, 1, 4)) \o "-" \o HexBytes(SubSeq(u, 5, 6)) \o "-"
        \o HexBytes(SubSeq(u, 7, 8)) \o "-" \o HexBytes(SubSeq(u, 9, 10)) \o "-"
        \o HexBytes(SubSeq(u, 11, 16))

\* Hyphenated, computed once for each uuid of the model
HyphenatedOf == [u \in Uuids |-> Hyphenated(u)]

ToHyphenated(u) == HyphenatedOf[u]

\* Option<Vec<u8>>
None == [some |-> FALSE, bytes |-> <<>>]
Some(bytes) == [some |-> TRUE, bytes |-> bytes]

\* gatt::characteristic::Characteristic
Characteristic(uuid, value, properties, secure) ==
    [uuid |-> uuid, value |-> value, properties |-> properties, secure |-> secure]

\* gatt::primary_service::PrimaryService
PrimaryService(uuid, characteristics) ==
    [uuid |-> uuid, characteristics |-> characteristics]

---------------------------------------------------------------------------
(* Objects handed to the host. *)

NilObject == [class |-> "nil"]

\* NSString::from_str
NSString(str) == [class |-> "NSString", str |-> str]

\* NSData::with_bytes
NSData(bytes) == [class |-> "NSData", bytes |-> bytes]

\* NSArray::from_vec
NSArray(elems) == [class |-> "NSArray", elems |-> elems]

\* NSDictionary::from_keys_and_objects: the i-th key maps to the i-th object,
\* a later equal key replacing an earlier one
NSDictionary(keys, objects) ==
    [class |-> "NSDictionary",
     entries |-> [k \in {keys[i] : i \in 1..Len(keys)} |->
                    objects[CHOOSE i \in 1..Len(keys) :
                              /\ keys[i] = k
                              /\ \A j \in 1..Len(keys) : keys[j] = k => j <= i]]]

\* msg_send![to, sel args]: args is a record of the arguments, named by the
\* keywords of the selector (<<>> when it takes none)
Msg(to, sel, args) == [to |-> to, sel |-> sel, args |-> args]

\* the selectors decl.add_method gives the delegate class
DelegateMethods ==
    {"init", "peripheralManagerDidUpdateState:",
     "peripheralManagerDidStartAdvertising:error:",
     "peripheralManager:didAddService:error:",
     "peripheralManager:didReceiveReadRequest:",
     "peripheralManager:didReceiveWriteRequests:"}

\* the selectors of CBPeripheralManager the code uses
ManagerMethods ==
    {"state", "startAdvertising:", "stopAdvertising", "isAdvertising", "addService:",
     "respondToRequest:withResult:"}

\* whether the receiver of a message implements its selector
Responds(msg) ==
    CASE msg.to = "delegate" -> msg.sel \in DelegateMethods
      [] msg.to = "manager" -> msg.sel \in ManagerMethods
      [] OTHER -> msg.sel = "localizedDescription"

---------------------------------------------------------------------------
(* add_service: the flags of a characteristic, and the descriptors. *)

\* the accumulators `properties` and `permissions`, both u8
NoFlags == [properties |-> 0, permissions |-> 0]

\* a mutant of MapRead: a secure Read is given the plain readable permission
MapReadPlain(c, f) ==
    IF "Read" \in c.properties
    THEN [properties |-> BitOr(f.properties, AsU8(CBCharacteristicPropertyRead)),
          permissions |-> BitOr(f.permissions, AsU8(CBAttributePermissionsReadable))]
    ELSE f

MapRead(c, f) ==
    IF "Read" \in c.properties
    THEN [properties |-> BitOr(f.properties, AsU8(CBCharacteristicPropertyRead)),
          permissions |->
              IF "Read" \in c.secure
              THEN BitOr(f.permissions, AsU8(CBAttributePermissionsReadEncryptionRequired))
              ELSE BitOr(f.permissions, AsU8(CBAttributePermissionsReadable))]
    ELSE f

MapWriteWithoutResponse(c, f) ==
    IF "WriteWithoutResponse" \in c.properties
    THEN [properties |->
              BitOr(f.properties, AsU8(CBCharacteristicPropertyWriteWithoutResponse)),
          permissions |->
              IF "WriteWithoutResponse" \in c.secure
              THEN BitOr(f.permissions, AsU8(CBAttributePermissionsWriteEncryptionRequired))
              ELSE BitOr(f.permissions, AsU8(CBAttributePermissionsWriteable))]
    ELSE f

\* a mutant of MapWrite: the write permission is assigned, not joined, so the one
\* WriteWithoutResponse gave is lost
MapWriteOverwrites(c, f) ==
    IF "Write" \in c.properties
    THEN [properties |-> BitOr(f.properties, AsU8(CBCharacteristicPropertyWrite)),
          permissions |->
              LET kept == f.permissions
                          - BitAnd(f.permissions, CBAttributePermissionsWriteable
                                       + CBAttributePermissionsWriteEncryptionRequired)
              IN
              IF "Write" \in c.secure
              THEN BitOr(kept, AsU8(CBAttributePermissionsWriteEncryptionRequired))
              ELSE BitOr(kept, AsU8(CBAttributePermissionsWriteable))]
    ELSE f

MapWrite(c, f) ==
    IF "Write" \in c.properties
    THEN [properties |-> BitOr(f.properties, AsU8(CBCharacteristicPropertyWrite)),
          permissions |->
              IF "Write" \in c.secure
              THEN BitOr(f.permissions, AsU8(CBAttributePermissionsWriteEncryptionRequired))
              ELSE BitOr(f.permissions, AsU8(CBAttributePermissionsWriteable))]
    ELSE f

MapNotify(c, f) ==
    IF "Notify" \in c.properties
    THEN [properties |->
              IF "Notify" \in c.secure
              THEN BitOr(f.properties,
                         AsU8(CBCharacteristicPropertyNotifyEncryptionRequired))
              ELSE BitOr(f.properties, AsU8(CBCharacteristicPropertyNotify)),
          permissions |-> f.permissions]
    ELSE f

MapIndicate(c, f) ==
    IF "Indicate" \in c.properties
    THEN [properties |->
              IF "Indicate" \in c.secure
              THEN BitOr(f.properties,
                         AsU8(CBCharacteristicPropertyIndicateEncryptionRequired))
              ELSE BitOr(f.properties, AsU8(CBCharacteristicPropertyIndicate)),
          permissions |-> f.permissions]
    ELSE f

\* the closure's five blocks, in the order the code has them
CharacteristicFlags(c) ==
    MapIndicate(c, MapNotify(c, MapWrite(c, MapWriteWithoutResponse(c,
        MapRead(c, NoFlags)))))

\* [CBMutableCharacteristic initWithType:properties:value:permissions:]
MutableCharacteristic(c) ==
    LET f == CharacteristicFlags(c) IN
    [class |-> "CBMutableCharacteristic",
     type |-> NSString(ToHyphenated(c.uuid)),
     properties |-> f.properties,
     value |-> IF c.value.some THEN NSData(c.value.bytes) ELSE NilObject,
     permissions |-> f.permissions]

\* a mutant of MutableCharacteristics: the last characteristic is left out
MutableCharacteristicsButLast(cs) ==
    [i \in 1..(IF Len(cs) = 0 THEN 0 ELSE Len(cs) - 1) |-> MutableCharacteristic(cs[i])]

\* primary_service.characteristics.iter().map(..).collect()
MutableCharacteristics(cs) ==
    [i \in 1..Len(cs) |-> MutableCharacteristic(cs[i])]

\* [CBMutableService initWithType:primary:] and setValue:forKey:"characteristics"
MutableService(primary_service) ==
    [class |-> "CBMutableService",
     type |-> NSString(ToHyphenated(primary_service.uuid)),
     primary |-> YES,
     characteristics |-> NSArray(MutableCharacteristics(primary_service.characteristics))]

\* the object add_service sends addService: to
AddServiceReceiver == "delegate"

---------------------------------------------------------------------------
(* start_advertising: the advertisement. *)

\* a mutant of AdvertisedUuids: a uuid already in the list is not added again
AdvertisedUuidsDeduplicated(uuids) ==
    LET keep == {i \in 1..Len(uuids) : \A j \in 1..(i - 1) : uuids[j] # uuids[i]}
        RECURSIVE Pick(_)
        Pick(i) ==
            IF i > Len(uuids) THEN <<>>
            ELSE (IF i \in keep THEN <<NSString(ToHyphenated(uuids[i]))>> ELSE <<>>)
                     \o Pick(i + 1)
    IN Pick(1)

\* uuids.iter().map(|u| NSString::from_str(&u.to_hyphenated().to_string())).collect()
AdvertisedUuids(uuids) ==
    [i \in 1..Len(uuids) |-> NSString(ToHyphenated(uuids[i]))]

\* keys, objects and NSDictionary::from_keys_and_objects
AdvertisingData(name, uuids) ==
    NSDictionary(<<CBAdvertisementDataLocalNameKey, CBAdvertisementDataServiceUUIDsKey>>,
                 <<NSString(name), NSArray(AdvertisedUuids(uuids))>>)

---------------------------------------------------------------------------
(* The record of an operation or callback. *)

\* op: its name; args: a record of its arguments (<<>> when it takes none); out: the messages it sent, in order;
\* ret: what it returned ("none" when it did not return); log: the lines it printed;
\* fault: "panic", "unrecognized selector" or "none"; outcome: "returned", or how a
\* fault ended (the exception leaves a frame that cannot unwind: the process is
\* aborted, or the frames above are unwound and the process goes on);
\* poweredOnWas: the ivar when the operation began
Ran(op, args, out, ret, log) ==
    [op |-> op, args |-> args, out |-> out, ret |-> ret, log |-> log,
     fault |-> "none", outcome |-> "returned", poweredOnWas |-> poweredOn]

Faulted(op, args, out, log, fault, outcome) ==
    [op |-> op, args |-> args, out |-> out, ret |-> "none", log |-> log,
     fault |-> fault, outcome |-> outcome, poweredOnWas |-> poweredOn]

FaultOutcomes == {"aborted", "unwound"}

\* the records an operation may leave: one when it returns, one per outcome of a fault
Results(op, args, out, ret, log, fault) ==
    IF fault = "none"
    THEN {Ran(op, args, out, ret, log)}
    ELSE {Faulted(op, args, out, log, fault, oc) : oc \in FaultOutcomes}

\* the fault of sending messages: a receiver that does not implement the selector
\* raises "unrecognized selector"
SendFault(out) ==
    IF \E i \in 1..Len(out) : ~Responds(out[i]) THEN "unrecognized selector" ELSE "none"

\* the fault of a conversion to bool
BoolFault(b) == IF b = "panic" THEN "panic" ELSE "none"

\* the process is alive
Running == last.outcome # "aborted"

\* sequences over S of length at most n
SeqsUpTo(S, n) == UNION {[1..k -> S] : k \in 0..n}

---------------------------------------------------------------------------
(* Inputs. *)

Names == {"Foo", ""}

\* opaque CBATTRequest handles
Requests == {"request1", "request2"}

\* NSError addresses the host may pass: nil, and 16-byte aligned heap addresses
\* whose low byte is 0x00, 0x10 and 0xF0
ErrorPointers == {nil, 16777216, 16777232, 16777456}

\* the characteristics of the services of Spec
CharacteristicPool ==
    {Characteristic(UuidA, None, {"Read", "Notify"}, {"Notify"}),
     Characteristic(UuidB, Some(<<1, 255>>), {"Read", "Write", "WriteWithoutResponse"},
                    {"Write"})}

Services ==
    {PrimaryService(u, cs) : u \in Uuids, cs \in SeqsUpTo(CharacteristicPool, MaxChars)}

\* every (properties, secure) with secure a subset of properties
FlagCharacteristics ==
    {Characteristic(UuidA, None, p, s) : <<p, s>> \in
        {ps \in (SUBSET Property) \X (SUBSET Property) : ps[2] \subseteq ps[1]}}

---------------------------------------------------------------------------
(* The process: the threads that call Peripheral::new, the class registration
   they share, and the delegate object each of them makes. *)

Threads == {"t1", "t2"}

\* ONCE_INIT, with the number of times the closure of call_once has run
ONCE_INIT == [state |-> "incomplete", runs |-> 0]

\* a mutant of CallOnceEnters: a caller that finds the registration begun but not
\* finished runs the closure as well
CallOnceEntersUnlessComplete(o) == o.state # "complete"

\* Once::call_once: the caller runs the closure iff no caller has begun to
CallOnceEnters(o) == o.state = "incomplete"

\* the attributes of a dispatch queue: it runs its blocks one after the other, or
\* side by side
DISPATCH_QUEUE_SERIAL == "serial"
DISPATCH_QUEUE_CONCURRENT == "concurrent"

\* a mutant of QueueAttr: init asks for a concurrent queue
QueueAttrConcurrent == DISPATCH_QUEUE_CONCURRENT

\* the attribute init gives dispatch_queue_create
QueueAttr == DISPATCH_QUEUE_SERIAL

\* the two parts of a pointer-sized word a load or store may move apart: the low
\* byte and the bytes above it
Halves == {"lo", "hi"}

Half(w, h) == IF h = "lo" THEN w % 256 ELSE w \div 256

WithHalf(w, h, v) == IF h = "lo" THEN (w \div 256) * 256 + v ELSE v * 256 + (w % 256)

\* a delegate object not yet allocated; msg_send![cls, alloc] zero-fills the ivars;
\* handlers: the callbacks running on the object's queue
NoDelegate ==
    [allocated |-> FALSE, peripheralManager |-> nil, queue |-> nil, queueAttr |-> "none",
     poweredOn |-> nil, handlers |-> <<>>]

\* a caller before Peripheral::new; loaded, left, seen and ret belong to its
\* is_powered_on call: the word loaded so far, the halves still to load, the
\* words the ivar has held since the call began, and the value returned
NoCall == [pc |-> "start", loaded |-> 0, left |-> {}, seen |-> {}, ret |-> "none"]

---------------------------------------------------------------------------
(* Peripheral::new and init. *)

\* the one Peripheral of Spec and SpecFlags, constructed
InitPeripheral ==
    /\ poweredOn = AsPtr(NO)
    /\ managerState = "Unknown"
    /\ seenOn = FALSE
    /\ last = Ran("new", <<>>, <<Msg("manager", "initWithDelegate:queue:",
                                     [initWithDelegate |-> "delegate",
                                      queue |-> "CBqueue"])>>, "Peripheral", <<>>)
    /\ addCalls = <<>>
    /\ managerAdds = <<>>
    /\ lastToggle = "none"

\* no thread has called Peripheral::new yet
InitProcess ==
    /\ once = ONCE_INIT
    /\ threads = [t \in Threads |-> NoCall]
    /\ delegates = [t \in Threads |-> NoDelegate]

Init == InitPeripheral /\ InitProcess

---------------------------------------------------------------------------
(* The public operations. *)

\* what is_powered_on returns in the current state ("panic" when it panics)
is_powered_on == objc_to_rust_bool(AsI8(poweredOn))

IsPoweredOn ==
    /\ Running
    /\ last' \in Results("is_powered_on", <<>>, <<>>, is_powered_on, <<>>,
                         BoolFault(is_powered_on))
    /\ UNCHANGED <<poweredOn, managerState, seenOn, addCalls, managerAdds, lastToggle>>
    /\ UNCHANGED processVars

\* the message start_advertising sends
StartAdvertisingMessage(name, uuids) ==
    Msg("manager", "startAdvertising:", [startAdvertising |-> AdvertisingData(name, uuids)])

\* a mutant of StartAdvertising: the call is validated locally, and dropped while the
\* flag is not YES
StartAdvertisingWhenPoweredOn(name, uuids) ==
    /\ Running
    /\ LET out == IF poweredOn = AsPtr(YES) THEN <<StartAdvertisingMessage(name, uuids)>>
                  ELSE <<>> IN
       last' \in Results("start_advertising", [name |-> name, uuids |-> uuids], out, "unit", <<>>,
                         SendFault(out))
    /\ UNCHANGED <<poweredOn, managerState, seenOn, addCalls, managerAdds, lastToggle>>
    /\ UNCHANGED processVars

StartAdvertising(name, uuids) ==
    /\ Running
    /\ LET out == <<StartAdvertisingMessage(name, uuids)>> IN
       last' \in Results("start_advertising", [name |-> name, uuids |-> uuids], out, "unit", <<>>,
                         SendFault(out))
    /\ UNCHANGED <<poweredOn, managerState, seenOn, addCalls, managerAdds, lastToggle>>
    /\ UNCHANGED processVars

\* a mutant of StopAdvertising: the call also resets the flag, as if the radio had
\* been turned off
StopAdvertisingResetsFlag ==
    /\ Running
    /\ LET out == <<Msg("manager", "stopAdvertising", <<>>)>> IN
       last' \in Results("stop_advertising", <<>>, out, "unit", <<>>, SendFault(out))
    /\ poweredOn' = AsPtr(NO)
    /\ UNCHANGED <<managerState, seenOn, addCalls, managerAdds, lastToggle>>
    /\ UNCHANGED processVars

StopAdvertising ==
    /\ Running
    /\ LET out == <<Msg("manager", "stopAdvertising", <<>>)>> IN
       last' \in Results("stop_advertising", <<>>, out, "unit", <<>>, SendFault(out))
    /\ UNCHANGED <<poweredOn, managerState, seenOn, addCalls, managerAdds, lastToggle>>
    /\ UNCHANGED processVars

\* the host answers isAdvertising with YES or NO
IsAdvertising ==
    /\ Running
    /\ \E answer \in {NO, YES} :
        LET out == <<Msg("manager", "isAdvertising", <<>>)>>
            ret == objc_to_rust_bool(answer)
        IN last' \in Results("is_advertising", <<>>, out, ret, <<>>,
                             IF SendFault(out) # "none" THEN SendFault(out)
                             ELSE BoolFault(ret))
    /\ UNCHANGED <<poweredOn, managerState, seenOn, addCalls, managerAdds, lastToggle>>
    /\ UNCHANGED processVars

\* the message add_service sends
AddServiceMessage(primary_service) ==
    Msg(AddServiceReceiver, "addService:", [addService |-> MutableService(primary_service)])

\* the registration requests among the messages the peripheral manager received
Registrations(out) ==
    LET RECURSIVE Pick(_)
        Pick(i) ==
            IF i > Len(out) THEN <<>>
            ELSE (IF out[i].to = "manager" /\ out[i].sel = "addService:"
                  THEN <<out[i].args.addService>> ELSE <<>>) \o Pick(i + 1)
    IN Pick(1)

AddService(primary_service) ==
    /\ Running
    /\ Len(addCalls) < MaxAddCalls
    /\ LET out == <<AddServiceMessage(primary_service)>> IN
        /\ last' \in Results("add_service", [primary_service |-> primary_service], out, "unit", <<>>,
                             SendFault(out))
        /\ managerAdds' = managerAdds \o Registrations(out)
    /\ addCalls' = Append(addCalls, primary_service.uuid)
    /\ UNCHANGED <<poweredOn, managerState, seenOn, lastToggle>>
    /\ UNCHANGED processVars

---------------------------------------------------------------------------
(* The delegate callbacks, run by the host on the instance's serial queue. *)

\* a mutant of PoweredOnAfter: PoweredOff leaves the flag as it was
PoweredOnAfterNoOff(state, old) ==
    IF state = "PoweredOn" THEN AsPtr(YES) ELSE old

\* a mutant of PoweredOnAfter: every state but PoweredOn turns the flag off
PoweredOnAfterStrict(state, old) ==
    IF state = "PoweredOn" THEN AsPtr(YES) ELSE AsPtr(NO)

\* the match of peripheral_manager_did_update_state: the ivar after an event
PoweredOnAfter(state, old) ==
    CASE state = "PoweredOff" -> AsPtr(NO)
      [] state = "PoweredOn" -> AsPtr(YES)
      [] OTHER -> old

\* the host moves to `state` and calls peripheralManagerDidUpdateState:
DidUpdateState(state) ==
    /\ Running
    /\ managerState' = state
    /\ poweredOn' = PoweredOnAfter(state, poweredOn)
    /\ seenOn' = (seenOn \/ state = "PoweredOn")
    /\ lastToggle' = IF state \in {"PoweredOn", "PoweredOff"} THEN state ELSE lastToggle
    /\ last' = Ran("did_update_state", [state |-> state], <<Msg("manager", "state", <<>>)>>,
                   "unit", <<"peripheral_manager_did_update_state",
                             "CBManagerState" \o state>>)
    /\ UNCHANGED <<addCalls, managerAdds>>
    /\ UNCHANGED processVars

\* the body of both error callbacks: the error pointer is narrowed to a BOOL, and
\* a true one has its description fetched and printed
ErrorCallback(op, args, error) ==
    LET b == objc_to_rust_bool(AsI8(error))
        out == IF b = "true" THEN <<Msg("error", "localizedDescription", <<>>)>> ELSE <<>>
        log == IF b = "true" THEN <<op, "localizedDescription">> ELSE <<op>>
    IN Results(op, args, out, "unit", log,
               IF b = "panic" THEN "panic" ELSE SendFault(out))

DidStartAdvertising(error) ==
    /\ Running
    /\ last' \in ErrorCallback("peripheral_manager_did_start_advertising_error",
                               [error |-> error], error)
    /\ UNCHANGED <<poweredOn, managerState, seenOn, addCalls, managerAdds, lastToggle>>
    /\ UNCHANGED processVars

DidAddService(error) ==
    /\ Running
    /\ last' \in ErrorCallback("peripheral_manager_did_add_service_error",
                               [error |-> error], error)
    /\ UNCHANGED <<poweredOn, managerState, seenOn, addCalls, managerAdds, lastToggle>>
    /\ UNCHANGED processVars

\* a mutant of ReadResponses: a request is left unanswered
ReadResponsesNone(request) == <<>>

\* the messages of peripheral_manager_did_receive_read_request
ReadResponses(request) ==
    <<Msg("manager", "respondToRequest:withResult:",
          [respondToRequest |-> request, withResult |-> CBATTErrorSuccess])>>

DidReceiveReadRequest(request) ==
    /\ Running
    /\ LET out == ReadResponses(request) IN
       last' \in Results("did_receive_read_request", [request |-> request], out, "unit", <<>>,
                         SendFault(out))
    /\ UNCHANGED <<poweredOn, managerState, seenOn, addCalls, managerAdds, lastToggle>>
    /\ UNCHANGED processVars

\* a mutant of WriteResponses: the batch is answered from its last request to its first
WriteResponsesReversed(requests) ==
    [i \in 1..Len(requests) |->
        Msg("manager", "respondToRequest:withResult:",
            [respondToRequest |-> requests[Len(requests) + 1 - i],
             withResult |-> CBATTErrorSuccess])]

\* the messages of peripheral_manager_did_receive_write_requests: one per request of
\* requests.to_vec(), in its order
WriteResponses(requests) ==
    [i \in 1..Len(requests) |->
        Msg("manager", "respondToRequest:withResult:",
            [respondToRequest |-> requests[i], withResult |-> CBATTErrorSuccess])]

DidReceiveWriteRequests(requests) ==
    /\ Running
    /\ LET out == WriteResponses(requests) IN
       last' \in Results("did_receive_write_requests", [requests |-> requests], out, "unit", <<>>,
                         SendFault(out))
    /\ UNCHANGED <<poweredOn, managerState, seenOn, addCalls, managerAdds, lastToggle>>
    /\ UNCHANGED processVars

---------------------------------------------------------------------------
(* Peripheral::new on thread t, step by step. *)

\* the host hands out a new object at every alloc and dispatch_queue_create
Fresh(ids) == CHOOSE n \in 1..(Cardinality(ids) + 1) : n \notin ids

Managers == {delegates[t].peripheralManager : t \in Threads} \ {nil}
Queues == {delegates[t].queue : t \in Threads} \ {nil}

\* REGISTER_DELEGATE_CLASS.call_once: the first caller goes on to run the closure, a
\* caller that finds it running waits, and a caller that finds it complete passes
CallOnce(t) ==
    /\ threads[t].pc = "start"
    /\ IF CallOnceEnters(once)
       THEN /\ once' = [once EXCEPT !.state = "running"]
            /\ threads' = [threads EXCEPT ![t].pc = "registering"]
       ELSE /\ once.state = "complete"
            /\ once' = once
            /\ threads' = [threads EXCEPT ![t].pc = "alloc"]
    /\ UNCHANGED delegates
    /\ UNCHANGED peripheralVars

\* the closure: ClassDecl::new(..).unwrap() panics when the class exists already;
\* otherwise the class is declared and registered, and call_once completes
RegisterClass(t) ==
    /\ threads[t].pc = "registering"
    /\ IF once.runs > 0
       THEN /\ threads' = [threads EXCEPT ![t].pc = "panicked"]
            /\ once' = [once EXCEPT !.runs = @ + 1]
       ELSE /\ threads' = [threads EXCEPT ![t].pc = "alloc"]
            /\ once' = [state |-> "complete", runs |-> once.runs + 1]
    /\ UNCHANGED delegates
    /\ UNCHANGED peripheralVars

\* Class::get(..).unwrap() and msg_send![cls, alloc]
DelegateAlloc(t) ==
    /\ threads[t].pc = "alloc"
    /\ IF once.runs = 0
       THEN /\ threads' = [threads EXCEPT ![t].pc = "panicked"]
            /\ UNCHANGED delegates
       ELSE /\ threads' = [threads EXCEPT ![t].pc = "init"]
            /\ delegates' = [delegates EXCEPT ![t].allocated = TRUE]
    /\ UNCHANGED once
    /\ UNCHANGED peripheralVars

\* msg_send![obj, init]: the delegate's init makes a peripheral manager on a queue of
\* its own and sets both ivars; from then on the manager may call the delegate
DelegateInit(t) ==
    /\ threads[t].pc = "init"
    /\ delegates' = [delegates EXCEPT ![t] =
                        [@ EXCEPT !.peripheralManager = Fresh(Managers),
                                  !.queue = Fresh(Queues),
                                  !.queueAttr = QueueAttr,
                                  !.poweredOn = AsPtr(NO)]]
    /\ threads' = [threads EXCEPT ![t].pc = "ready"]
    /\ UNCHANGED once
    /\ UNCHANGED peripheralVars

---------------------------------------------------------------------------
(* is_powered_on on the caller's thread, beside the handlers of the queue.  The load
   and the store of the ivar are not synchronised: each moves the word in two
   halves, in either order, and the other thread may run in between. *)

\* is_powered_on is entered
IsPoweredOnCall(t) ==
    /\ threads[t].pc \in {"ready", "returned"}
    /\ threads' = [threads EXCEPT ![t] =
                      [pc |-> "called", loaded |-> 0, left |-> Halves,
                       seen |-> {delegates[t].poweredOn}, ret |-> "none"]]
    /\ UNCHANGED <<once, delegates>>
    /\ UNCHANGED peripheralVars

\* one half of *get_ivar(POWERED_ON_IVAR) is loaded; after the second the word is
\* narrowed, converted and returned
IsPoweredOnLoad(t, h) ==
    /\ threads[t].pc = "called"
    /\ h \in threads[t].left
    /\ LET loaded == WithHalf(threads[t].loaded, h, Half(delegates[t].poweredOn, h))
           left == threads[t].left \ {h}
           ret == objc_to_rust_bool(AsI8(loaded))
       IN threads' = [threads EXCEPT ![t] =
              IF left # {}
              THEN [@ EXCEPT !.loaded = loaded, !.left = left]
              ELSE [@ EXCEPT !.loaded = loaded, !.left = left, !.ret = ret,
                             !.pc = IF ret = "panic" THEN "panicked" ELSE "returned"]]
    /\ UNCHANGED <<once, delegates>>
    /\ UNCHANGED peripheralVars

\* whether the queue of a delegate may start a block now
QueueAdmits(d) == d.queueAttr = DISPATCH_QUEUE_SERIAL => d.handlers = <<>>

\* the manager of t's delegate runs peripheralManagerDidUpdateState: on its queue
DidUpdateStateBegin(t, state) ==
    /\ delegates[t].peripheralManager # nil
    /\ QueueAdmits(delegates[t])
    /\ delegates' = [delegates EXCEPT ![t].handlers =
                        Append(@, [state |-> state,
                                   left |-> IF state \in {"PoweredOff", "PoweredOn"}
                                            THEN Halves ELSE {}])]
    /\ UNCHANGED <<once, threads>>
    /\ UNCHANGED peripheralVars

\* a mutant of StoreIvar: the flag is one word shared by all delegates
StoreIvarShared(ds, t, word) ==
    [u \in Threads |-> [ds[u] EXCEPT !.poweredOn = word]]

\* delegate.set_ivar(POWERED_ON_IVAR, ..): the ivar of this delegate
StoreIvar(ds, t, word) ==
    [ds EXCEPT ![t].poweredOn = word]

\* the k-th running handler of t's delegate stores one half of its arm's value
DidUpdateStateStore(t, k, h) ==
    /\ k \in 1..Len(delegates[t].handlers)
    /\ h \in delegates[t].handlers[k].left
    /\ LET old == delegates[t].poweredOn
           value == PoweredOnAfter(delegates[t].handlers[k].state, old)
           word == WithHalf(old, h, Half(value, h))
       IN /\ delegates' = [StoreIvar(delegates, t, word) EXCEPT
                               ![t].handlers[k].left = @ \ {h}]
          /\ threads' = [u \in Threads |->
                            IF threads[u].pc = "called"
                            THEN [threads[u] EXCEPT !.seen = @ \cup {delegates'[u].poweredOn}]
                            ELSE threads[u]]
    /\ UNCHANGED once
    /\ UNCHANGED peripheralVars

\* the k-th running handler of t's delegate returns
DidUpdateStateReturn(t, k) ==
    /\ k \in 1..Len(delegates[t].handlers)
    /\ delegates[t].handlers[k].left = {}
    /\ delegates' = [delegates EXCEPT ![t].handlers =
                        SubSeq(@, 1, k - 1) \o SubSeq(@, k + 1, Len(@))]
    /\ UNCHANGED <<once, threads>>
    /\ UNCHANGED peripheralVars

---------------------------------------------------------------------------
(* The specifications. *)

Next ==
    \/ IsPoweredOn
    \/ \E name \in Names, uuids \in SeqsUpTo(Uuids, MaxUuids) : StartAdvertising(name, uuids)
    \/ StopAdvertising
    \/ IsAdvertising
    \/ \E primary_service \in Services : AddService(primary_service)
    \/ \E state \in CBManagerStates : DidUpdateState(state)
    \/ \E error \in ErrorPointers : DidStartAdvertising(error)
    \/ \E error \in ErrorPointers : DidAddService(error)
    \/ \E request \in Requests : DidReceiveReadRequest(request)
    \/ \E requests \in SeqsUpTo(Requests, MaxBatch) : DidReceiveWriteRequests(requests)

Spec == Init /\ [][Next]_vars

\* add_service on one characteristic, over every (properties, secure)
NextFlags ==
    \E c \in FlagCharacteristics : AddService(PrimaryService(UuidA, <<c>>))

SpecFlags == Init /\ [][NextFlags]_vars

\* the power events of SpecThreads: the two that store, and one of the four that
\* only print
ThreadEvents == {"PoweredOn", "PoweredOff", "Resetting"}

\* every thread makes a Peripheral and asks it is_powered_on, again and again, while
\* the host delivers power events to the delegates there are
NextThreads ==
    \/ \E t \in Threads : CallOnce(t)
    \/ \E t \in Threads : RegisterClass(t)
    \/ \E t \in Threads : DelegateAlloc(t)
    \/ \E t \in Threads : DelegateInit(t)
    \/ \E t \in Threads : IsPoweredOnCall(t)
    \/ \E t \in Threads, h \in Halves : IsPoweredOnLoad(t, h)
    \/ \E t \in Threads, state \in ThreadEvents : DidUpdateStateBegin(t, state)
    \/ \E t \in Threads : \E k \in 1..Len(delegates[t].handlers), h \in Halves :
           DidUpdateStateStore(t, k, h)
    \/ \E t \in Threads : \E k \in 1..Len(delegates[t].handlers) :
           DidUpdateStateReturn(t, k)

SpecThreads == Init /\ [][NextThreads]_vars

---------------------------------------------------------------------------
(* Helpers of the properties. *)

\* whether two flag words share a bit
HasBit(flags, bit) == BitAnd(flags, bit) # 0

\* the canonical text of the model's uuids, written out
CanonicalText(u) ==
    IF u = UuidA THEN "00112233-4455-6677-8899-aabbccddeeff"
    ELSE "12345678-9abc-def0-0123-456789abcdef"

\* the last operation was `op`
Did(op) == last.op = op

\* the service add_service was called with, and the descriptor it sent
AddedService == last.args.primary_service
SentService == last.out[1].args.addService

\* the callbacks that report an asynchronous outcome
ErrorCallbacks ==
    {"peripheral_manager_did_start_advertising_error",
     "peripheral_manager_did_add_service_error"}

---------------------------------------------------------------------------
(* Power state. *)

\* C1: is_powered_on() is false until the first PoweredOn event, true right after a
\* PoweredOn event, and false right after a PoweredOff event, however often the
\* radio is toggled.
C1_PoweredOnFollowsToggles ==
    /\ ~seenOn => is_powered_on = "false"
    /\ (Did("did_update_state") /\ last.args.state = "PoweredOn") => is_powered_on = "true"
    /\ (Did("did_update_state") /\ last.args.state = "PoweredOff") => is_powered_on = "false"

\* the radio was on and a PoweredOff event has just been handled
C1_Witness ==
    /\ seenOn
    /\ Did("did_update_state")
    /\ last.args.state = "PoweredOff"
    /\ is_powered_on = "false"

\* C2: is_powered_on() is true exactly when the state of the most recent event is
\* PoweredOn.
C2_LastEventDecides ==
    (is_powered_on = "true") <=> (managerState = "PoweredOn")

---------------------------------------------------------------------------
(* The flags of a characteristic (SpecFlags). *)

\* C3: the capability flags mark exactly the capabilities in properties, notify and
\* indicate in their plain or their requires-encryption form, and no property gives
\* no flag at all.
C3_CapabilitiesExact ==
    Did("add_service") =>
        LET c == AddedService.characteristics[1]
            d == SentService.characteristics.elems[1]
        IN
        /\ HasBit(d.properties, CBCharacteristicPropertyRead) <=> "Read" \in c.properties
        /\ HasBit(d.properties, CBCharacteristicPropertyWrite) <=> "Write" \in c.properties
        /\ HasBit(d.properties, CBCharacteristicPropertyWriteWithoutResponse)
               <=> "WriteWithoutResponse" \in c.properties
        /\ (\/ HasBit(d.properties, CBCharacteristicPropertyNotify)
            \/ HasBit(d.properties, CBCharacteristicPropertyNotifyEncryptionRequired))
               <=> "Notify" \in c.properties
        /\ (\/ HasBit(d.properties, CBCharacteristicPropertyIndicate)
            \/ HasBit(d.properties, CBCharacteristicPropertyIndicateEncryptionRequired))
               <=> "Indicate" \in c.properties
        /\ c.properties = {} => (d.properties = 0 /\ d.permissions = 0)

\* C4: the read permission is read-requires-encryption iff Read is secure, readable
\* iff Read is offered and not secure, and absent without Read; a write-type property
\* that is the only one offered gives write-requires-encryption iff it is secure and
\* writeable otherwise, never both.
C4_PermissionsFollowSecure ==
    Did("add_service") =>
        LET c == AddedService.characteristics[1]
            d == SentService.characteristics.elems[1]
            writes == c.properties \cap {"Write", "WriteWithoutResponse"}
        IN
        /\ HasBit(d.permissions, CBAttributePermissionsReadEncryptionRequired)
               <=> "Read" \in c.secure
        /\ HasBit(d.permissions, CBAttributePermissionsReadable)
               <=> "Read" \in c.properties \ c.secure
        /\ \A w \in {"Write", "WriteWithoutResponse"} :
               writes = {w} =>
                   /\ HasBit(d.permissions, CBAttributePermissionsWriteEncryptionRequired)
                          <=> w \in c.secure
                   /\ HasBit(d.permissions, CBAttributePermissionsWriteable)
                          <=> w \notin c.secure

\* a secure Read beside a plain Write, the only write-type property
C4_Witness ==
    /\ Did("add_service")
    /\ AddedService.characteristics[1].properties = {"Read", "Write"}
    /\ AddedService.characteristics[1].secure = {"Read"}
    /\ SentService.characteristics.elems[1].permissions =
           CBAttributePermissionsReadEncryptionRequired + CBAttributePermissionsWriteable

---------------------------------------------------------------------------
(* Requests. *)

\* C5: a batch of n write requests gets exactly n responses before the handler
\* returns, the i-th one Success for the i-th request.
C5_WriteBatchAnsweredInOrder ==
    Did("did_receive_write_requests") =>
        LET requests == last.args.requests IN
        /\ last.outcome = "returned"
        /\ Len(last.out) = Len(requests)
        /\ \A i \in 1..Len(requests) :
               /\ last.out[i].to = "manager"
               /\ last.out[i].sel = "respondToRequest:withResult:"
               /\ last.out[i].args.respondToRequest = requests[i]
               /\ last.out[i].args.withResult = CBATTErrorSuccess

\* a batch of three requests, not all the same
C5_Witness ==
    /\ Did("did_receive_write_requests")
    /\ last.args.requests = <<"request1", "request2", "request1">>
    /\ Len(last.out) = 3

\* C6: a read request gets exactly one response, Success, before the handler
\* returns, whatever the power state and whether or not a service was added.
C6_ReadAnsweredOnce ==
    Did("did_receive_read_request") =>
        /\ last.outcome = "returned"
        /\ last.out = <<Msg("manager", "respondToRequest:withResult:",
                            [respondToRequest |-> last.args.request,
                             withResult |-> CBATTErrorSuccess])>>

\* a read request while the radio is off and no service was ever added
C6_Witness ==
    /\ Did("did_receive_read_request")
    /\ managerState = "PoweredOff"
    /\ addCalls = <<>>
    /\ Len(last.out) = 1

---------------------------------------------------------------------------
(* Registration and advertising. *)

\* C7: after k add_service calls the peripheral manager has received k registration
\* requests, the i-th one for the i-th service.
C7_ManagerReceivesEveryService ==
    /\ Len(managerAdds) = Len(addCalls)
    /\ \A i \in 1..Len(managerAdds) :
           managerAdds[i].type = NSString(CanonicalText(addCalls[i]))

\* C8: the advertising-started and service-added handlers return normally, send
\* nothing to the peripheral manager and leave the powered-on flag as it was, with
\* an error and without one.
C8_ErrorsOnlyObserved ==
    last.op \in ErrorCallbacks =>
        /\ last.outcome = "returned"
        /\ \A i \in 1..Len(last.out) : last.out[i].to # "manager"
        /\ poweredOn = last.poweredOnWas

\* C9: the descriptor of a service has one characteristic descriptor per
\* characteristic, the i-th one with the i-th uuid and static value (or none), and
\* is marked primary.
C9_DescriptorKeepsCharacteristics ==
    Did("add_service") =>
        LET cs == AddedService.characteristics
            ds == SentService.characteristics.elems
        IN
        /\ last.out[1].sel = "addService:"
        /\ SentService.primary = YES
        /\ SentService.type = NSString(CanonicalText(AddedService.uuid))
        /\ Len(ds) = Len(cs)
        /\ \A i \in 1..Len(cs) :
               /\ ds[i].type = NSString(CanonicalText(cs[i].uuid))
               /\ ds[i].value = IF cs[i].value.some THEN NSData(cs[i].value.bytes)
                                ELSE NilObject

\* a service of two different characteristics, one with a static value
C9_Witness ==
    /\ Did("add_service")
    /\ Len(AddedService.characteristics) = 2
    /\ AddedService.characteristics[1].uuid = UuidB
    /\ AddedService.characteristics[2].uuid = UuidA
    /\ Len(SentService.characteristics.elems) = 2

\* C10: the advertisement has exactly two entries, the local name and the list of
\* service uuids, one canonical text per uuid, in order, repeated ones included.
C10_AdvertisementKeepsNameAndUuids ==
    Did("start_advertising") =>
        LET name == last.args.name
            uuids == last.args.uuids
            data == last.out[1].args.startAdvertising
        IN
        /\ Len(last.out) = 1
        /\ last.out[1].to = "manager"
        /\ last.out[1].sel = "startAdvertising:"
        /\ DOMAIN data.entries =
               {CBAdvertisementDataLocalNameKey, CBAdvertisementDataServiceUUIDsKey}
        /\ data.entries[CBAdvertisementDataLocalNameKey] = NSString(name)
        /\ LET list == data.entries[CBAdvertisementDataServiceUUIDsKey].elems IN
               /\ Len(list) = Len(uuids)
               /\ \A i \in 1..Len(uuids) : list[i] = NSString(CanonicalText(uuids[i]))

\* an advertisement of the same uuid twice
C10_Witness ==
    /\ Did("start_advertising")
    /\ last.args.name = "Foo"
    /\ last.args.uuids = <<UuidA, UuidA>>
    /\ Len(last.out[1].args.startAdvertising
               .entries[CBAdvertisementDataServiceUUIDsKey].elems) = 2

\* C11: start_advertising validates nothing locally: in every state it can be
\* called, sends exactly one startAdvertising: to the peripheral manager and
\* returns; stop_advertising likewise sends exactly one stopAdvertising.
C11_AdvertisingRequestsAlwaysSubmitted ==
    /\ Running => (ENABLED StartAdvertising("Foo", <<UuidA>>) /\ ENABLED StopAdvertising)
    /\ Did("start_advertising") =>
           /\ last.outcome = "returned"
           /\ Len(last.out) = 1
           /\ last.out[1].to = "manager"
           /\ last.out[1].sel = "startAdvertising:"
    /\ Did("stop_advertising") =>
           /\ last.outcome = "returned"
           /\ last.out = <<Msg("manager", "stopAdvertising", <<>>)>>

\* start_advertising called while the radio is off
C11_Witness ==
    /\ Did("start_advertising")
    /\ managerState = "PoweredOff"
    /\ is_powered_on = "false"
    /\ Len(last.out) = 1

---------------------------------------------------------------------------
(* Write permissions of a characteristic with both write-type properties (SpecFlags). *)

\* the characteristic offers Write and WriteWithoutResponse, and exactly one of the
\* two is secure
MixedWrites(c) ==
    /\ {"Write", "WriteWithoutResponse"} \subseteq c.properties
    /\ Cardinality(c.secure \cap {"Write", "WriteWithoutResponse"}) = 1

\* C13 as stated: with Write and WriteWithoutResponse both offered and exactly one
\* of them secure, Write decides alone: the permissions hold exactly one of
\* writeable and write-requires-encryption, the latter iff Write is secure.
C13_LastWriteWins ==
    (Did("add_service") /\ MixedWrites(AddedService.characteristics[1])) =>
        LET c == AddedService.characteristics[1]
            d == SentService.characteristics.elems[1]
        IN
        /\ HasBit(d.permissions, CBAttributePermissionsWriteEncryptionRequired)
               <=> "Write" \in c.secure
        /\ HasBit(d.permissions, CBAttributePermissionsWriteable)
               <=> "Write" \notin c.secure

\* C13 as amended: with Write and WriteWithoutResponse both offered and exactly one
\* of them secure, the permissions hold both writeable and
\* write-requires-encryption, whichever of the two is the secure one.
C13_WritePermissionsJoined ==
    (Did("add_service") /\ MixedWrites(AddedService.characteristics[1])) =>
        LET d == SentService.characteristics.elems[1] IN
        /\ HasBit(d.permissions, CBAttributePermissionsWriteEncryptionRequired)
        /\ HasBit(d.permissions, CBAttributePermissionsWriteable)

\* a secure WriteWithoutResponse beside a plain Write
C13_Witness ==
    /\ Did("add_service")
    /\ AddedService.characteristics[1].properties = {"Write", "WriteWithoutResponse"}
    /\ AddedService.characteristics[1].secure = {"WriteWithoutResponse"}
    /\ SentService.characteristics.elems[1].permissions =
           CBAttributePermissionsWriteable + CBAttributePermissionsWriteEncryptionRequired

---------------------------------------------------------------------------
(* The flag and the operations that do not write it. *)

\* every operation and callback but peripheral_manager_did_update_state
OtherOperations ==
    {"is_powered_on", "start_advertising", "stop_advertising", "is_advertising",
     "add_service", "peripheral_manager_did_start_advertising_error",
     "peripheral_manager_did_add_service_error", "did_receive_read_request",
     "did_receive_write_requests"}

\* C14: only the power-state-changed handler changes the powered-on flag: each
\* other operation and callback leaves it as it found it, between any power events.
C14_OnlyPowerEventsChangeFlag ==
    last.op \in OtherOperations => poweredOn = last.poweredOnWas

\* stop_advertising has run while the flag was on, and the flag is still on
C14_Witness ==
    /\ Did("stop_advertising")
    /\ last.poweredOnWas = AsPtr(YES)
    /\ is_powered_on = "true"

---------------------------------------------------------------------------
(* Callers and queues (SpecThreads). *)

\* what is_powered_on returns for a word of the ivar
BoolOf(word) == objc_to_rust_bool(AsI8(word))

\* C15: an is_powered_on() that runs beside the handlers of its instance returns a
\* value the flag held at some moment between the call and its return, never
\* another one, and no two handlers of one instance run at the same time.
C15_ReadsSeeAHeldValue ==
    \A t \in Threads :
        /\ threads[t].pc # "panicked"
        /\ threads[t].pc = "returned" =>
               threads[t].ret \in {BoolOf(word) : word \in threads[t].seen}
        /\ Len(delegates[t].handlers) <= 1

\* a call during which a handler turned the flag on, and which still returned false
C15_Witness ==
    \E t \in Threads :
        /\ threads[t].pc = "returned"
        /\ threads[t].seen = {AsPtr(NO), AsPtr(YES)}
        /\ threads[t].ret = "false"
        /\ delegates[t].poweredOn = AsPtr(YES)

\* the closure has run once and completed before any delegate object exists, and
\* no two delegates share a peripheral manager or a queue
RegisteredOnceAndApart ==
    /\ once.runs <= 1
    /\ \A t \in Threads :
           /\ threads[t].pc # "panicked"
           /\ delegates[t].allocated => (once.state = "complete" /\ once.runs = 1)
           /\ threads[t].pc \in {"alloc", "init", "ready", "called", "returned"} =>
                  once.state = "complete"
    /\ \A t, u \in Threads :
           (t # u /\ delegates[t].peripheralManager # nil
                  /\ delegates[u].peripheralManager # nil) =>
               /\ delegates[t].peripheralManager # delegates[u].peripheralManager
               /\ delegates[t].queue # delegates[u].queue

\* a step that ends init leaves the flag false, and the flag of a delegate changes
\* only in a step of a handler running on that delegate's own queue
FlagsApart ==
    \A t \in Threads :
        /\ (threads[t].pc = "init" /\ threads'[t].pc = "ready") =>
               (BoolOf(delegates'[t].poweredOn) = "false"
                    /\ delegates'[t].queueAttr = DISPATCH_QUEUE_SERIAL)
        /\ BoolOf(delegates'[t].poweredOn) # BoolOf(delegates[t].poweredOn) =>
               \E k \in 1..Len(delegates[t].handlers) :
                   /\ delegates[t].handlers[k].left # {}
                   /\ delegates'[t].handlers[k].left # delegates[t].handlers[k].left

\* C16: however many threads call Peripheral::new(), also at the same time, the
\* class registration runs exactly once and is complete before any instance is
\* allocated; every instance has a peripheral manager, a serial queue and a flag of
\* its own, the flag false after init, and a power event of one instance never
\* changes what is_powered_on() of another returns.
C16_InstancesIndependent ==
    []RegisteredOnceAndApart /\ [][FlagsApart]_vars

\* two instances, made by two threads, with different flags
C16_Witness ==
    /\ once.runs = 1
    /\ delegates["t1"].peripheralManager # nil
    /\ delegates["t2"].peripheralManager # nil
    /\ BoolOf(delegates["t1"].poweredOn) = "true"
    /\ BoolOf(delegates["t2"].poweredOn) = "false"
    /\ delegates["t2"].handlers = <<>>

---------------------------------------------------------------------------
(* Conversions. *)

\* C17: objc_to_rust_bool is only ever given YES or NO, so no operation and no
\* callback panics: not is_powered_on on the flag, not is_advertising on the host's
\* answer, and not the two error callbacks on the low byte of any error address.
C17_BoolsAreYesOrNo ==
    /\ last.fault # "panic"
    /\ AsI8(poweredOn) \in {YES, NO}
    /\ last.op \in ErrorCallbacks => AsI8(last.args.error) \in {YES, NO}

\* the host constants the mapping selects for a characteristic, at their full width
SelectedProperties(c) ==
    {CBCharacteristicPropertyRead : p \in c.properties \cap {"Read"}}
    \cup {CBCharacteristicPropertyWriteWithoutResponse :
              p \in c.properties \cap {"WriteWithoutResponse"}}
    \cup {CBCharacteristicPropertyWrite : p \in c.properties \cap {"Write"}}
    \cup {IF p \in c.secure THEN CBCharacteristicPropertyNotifyEncryptionRequired
                             ELSE CBCharacteristicPropertyNotify :
              p \in c.properties \cap {"Notify"}}
    \cup {IF p \in c.secure THEN CBCharacteristicPropertyIndicateEncryptionRequired
                             ELSE CBCharacteristicPropertyIndicate :
              p \in c.properties \cap {"Indicate"}}

SelectedPermissions(c) ==
    {IF p \in c.secure THEN CBAttributePermissionsReadEncryptionRequired
                        ELSE CBAttributePermissionsReadable :
         p \in c.properties \cap {"Read"}}
    \cup {IF p \in c.secure THEN CBAttributePermissionsWriteEncryptionRequired
                             ELSE CBAttributePermissionsWriteable :
              p \in c.properties \cap {"Write", "WriteWithoutResponse"}}

\* the bitwise OR of a set of flag words
RECURSIVE OrAll(_)
OrAll(S) ==
    IF S = {} THEN 0
    ELSE LET x == CHOOSE y \in S : TRUE IN BitOr(x, OrAll(S \ {x}))

\* C18: the capability and permission flags handed to the stack are the bitwise OR
\* of the selected host constants at their full width: the 8-bit accumulator loses
\* no bit of any of them, and a secure Notify or Indicate contributes its bit.
C18_NarrowingLosesNoBit ==
    Did("add_service") =>
        LET c == AddedService.characteristics[1]
            d == SentService.characteristics.elems[1]
        IN
        /\ d.properties = OrAll(SelectedProperties(c))
        /\ d.permissions = OrAll(SelectedPermissions(c))
        /\ "Notify" \in c.secure =>
               HasBit(d.properties, CBCharacteristicPropertyNotifyEncryptionRequired)
        /\ "Indicate" \in c.secure =>
               HasBit(d.properties, CBCharacteristicPropertyIndicateEncryptionRequired)

---------------------------------------------------------------------------
(* The flag over a sequence of power events. *)

\* C19: after any sequence of power events is_powered_on() is true iff there was a
\* PoweredOn event with no PoweredOff event after it: an Unknown, Resetting,
\* Unsupported or Unauthorized event leaves the flag as it was, and a repeated
\* PoweredOn or PoweredOff changes nothing.
C19_FlagFollowsLastToggle ==
    /\ (is_powered_on = "true") <=> (lastToggle = "PoweredOn")
    /\ (is_powered_on = "false") <=> (lastToggle \in {"none", "PoweredOff"})
    /\ Did("did_update_state") =>
           /\ last.args.state \notin {"PoweredOn", "PoweredOff"} =>
                  poweredOn = last.poweredOnWas
           /\ (last.args.state = "PoweredOn" /\ last.poweredOnWas = AsPtr(YES)) =>
                  poweredOn = last.poweredOnWas
           /\ (last.args.state = "PoweredOff" /\ last.poweredOnWas = AsPtr(NO)) =>
                  poweredOn = last.poweredOnWas

\* the radio was turned on and the last event was another one that is not PoweredOff
C19_Witness ==
    /\ Did("did_update_state")
    /\ last.args.state = "Resetting"
    /\ lastToggle = "PoweredOn"
    /\ is_powered_on = "true"

====
